---- MODULE Spec2Model ----
(***************************************************************************)
(* TradeKix MCP server (src/src/index.ts): ten tool handlers that each     *)
(* collect their parameters, call makeRequest once and wrap the outcome as *)
(* one text content block.  A tool invocation is an asynchronous function *)
(* with three suspension points: makeRequest awaits fetch (line 43) and    *)
(* then resp.json() (line 47), and the handler awaits makeRequest.  Other  *)
(* invocations and changes of the environment interleave at each of them.  *)
(***************************************************************************)
EXTENDS Integers, Sequences, FiniteSets, TLC

VARIABLES
    env,     \* process.env.TRADEKIX_API_KEY: undefined or a string
    calls    \* one record per tool invocation (the handler's closure)

vars == <<env, calls>>

(***************************************************************************)
(* Bounds of the model.                                                    *)
(***************************************************************************)
MaxCalls == 2        \* invocations that may be in flight together
MaxLen == 2          \* elements of an array / members of an object in `data`

(***************************************************************************)
(* JavaScript values, tagged by type.                                      *)
(***************************************************************************)
Undefined == [t |-> "undefined"]
Null == [t |-> "null"]
Bool(b) == [t |-> "bool", b |-> b]
Num(n) == [t |-> "num", n |-> n]
Str(s) == [t |-> "str", s |-> s]
Arr(a) == [t |-> "arr", a |-> a]
Obj(o) == [t |-> "obj", o |-> o]       \* o: sequence of <<key, value>>, keys distinct

\* ToBoolean: what `if (v)`, `!v` and `v ? a : b` test.
Truthy(v) ==
    CASE v.t = "undefined" -> FALSE
      [] v.t = "null" -> FALSE
      [] v.t = "bool" -> v.b
      [] v.t = "num" -> v.n # 0
      [] v.t = "str" -> v.s # ""
      [] OTHER -> TRUE

\* String(v) of a boolean or a string.
String(v) ==
    CASE v.t = "bool" -> (IF v.b THEN "true" ELSE "false")
      [] v.t = "str" -> v.s
      [] OTHER -> v.t

HasKey(v, k) == v.t = "obj" /\ \E j \in 1..Len(v.o) : v.o[j][1] = k

\* Property read v.k of a value that is not null or undefined.
Get(v, k) ==
    IF HasKey(v, k)
    THEN v.o[CHOOSE j \in 1..Len(v.o) : v.o[j][1] = k][2]
    ELSE Undefined

(***************************************************************************)
(* JSON.stringify(value, null, 2), as the sequence of lexical tokens of    *)
(* the text it returns.  A token is a punctuator, a literal, a string, a   *)
(* number, one space, or a line break followed by n spaces.                *)
(***************************************************************************)
Indent == 2

Tok(k, s, n) == [k |-> k, s |-> s, n |-> n]
P(s) == Tok("p", s, 0)
Lit(s) == Tok("lit", s, 0)
StrTok(s) == Tok("str", s, 0)
NumTok(n) == Tok("num", "", n)
Sp == Tok("sp", "", 1)
NL(depth) == Tok("nl", "", Indent * depth)

\* Members of an object that JSON.stringify writes: those whose value is defined.
Written(o) == SelectSeq(o, LAMBDA kv : kv[2].t # "undefined")

RECURSIVE Ser(_, _)
RECURSIVE SerItems(_, _, _)
RECURSIVE SerMembers(_, _, _)

\* The elements a[j..] of an array, each on its own line at `depth`.
SerItems(a, j, depth) ==
    IF j > Len(a) THEN <<>>
    ELSE <<NL(depth)>>
         \o (IF a[j].t = "undefined" THEN <<Lit("null")>> ELSE Ser(a[j], depth))
         \o (IF j < Len(a) THEN <<P(",")>> ELSE <<>>)
         \o SerItems(a, j + 1, depth)

\* The members o[j..] of an object, each on its own line at `depth`.
SerMembers(o, j, depth) ==
    IF j > Len(o) THEN <<>>
    ELSE <<NL(depth), StrTok(o[j][1]), P(":"), Sp>>
         \o Ser(o[j][2], depth)
         \o (IF j < Len(o) THEN <<P(",")>> ELSE <<>>)
         \o SerMembers(o, j + 1, depth)

Ser(v, depth) ==
    CASE v.t = "null" -> <<Lit("null")>>
      [] v.t = "bool" -> <<Lit(String(v))>>
      [] v.t = "num" -> <<NumTok(v.n)>>
      [] v.t = "str" -> <<StrTok(v.s)>>
      [] v.t = "arr" ->
            IF Len(v.a) = 0 THEN <<P("["), P("]")>>
            ELSE <<P("[")>> \o SerItems(v.a, 1, depth + 1) \o <<NL(depth), P("]")>>
      [] v.t = "obj" ->
            IF Len(Written(v.o)) = 0 THEN <<P("{"), P("}")>>
            ELSE <<P("{")>> \o SerMembers(Written(v.o), 1, depth + 1)
                 \o <<NL(depth), P("}")>>
      [] OTHER -> <<>>

\* A JavaScript string given by its tokens, or undefined.
Text(toks) == [t |-> "text", toks |-> toks]

JSON_stringify(v) == IF v.t = "undefined" THEN Undefined ELSE Text(Ser(v, 0))

(***************************************************************************)
(* The parameter object a handler builds (Record<string, string>) and the  *)
(* call of makeRequest it ends with.                                       *)
(***************************************************************************)
NoProps == [k \in {} |-> ""]

\* params.k = v
Put(params, k, v) == (k :> v) @@ params

\* if (c) params.k = v
PutIf(params, c, k, v) == IF c THEN Put(params, k, v) ELSE params

\* if (a.k) params.k = a.k
Forward(params, a, k) == PutIf(params, Truthy(a[k]), k, String(a[k]))

\* makeRequest(endpoint) and makeRequest(endpoint, params)
Request0(endpoint) == [endpoint |-> endpoint, given |-> FALSE, params |-> NoProps]
Request1(endpoint, params) == [endpoint |-> endpoint, given |-> TRUE, params |-> params]

tradekix_market_overview(a) == Request0("market/overview")

tradekix_prices_nosymbol(a) ==
    Request1("market/prices",
        Forward(Forward(Forward(NoProps, a, "from"), a, "to"), a, "limit"))

tradekix_prices(a) ==
    Request1("market/prices",
        Forward(Forward(Forward(Put(NoProps, "symbol", String(a["symbol"])),
                                a, "from"), a, "to"), a, "limit"))

tradekix_indices(a) ==
    Request1("market/indices", Forward(Forward(NoProps, a, "region"), a, "country"))

tradekix_forex(a) == Request1("market/forex", Forward(NoProps, a, "symbol"))

tradekix_earnings(a) == Request0("events/earnings")

tradekix_economic_events(a) ==
    Request1("events/economic",
        Forward(Forward(Forward(Forward(NoProps, a, "country"), a, "impact"),
                        a, "from"), a, "to"))

tradekix_congressional_trades(a) ==
    Request1("trades/congressional",
        Forward(Forward(Forward(Forward(Forward(Forward(NoProps,
            a, "symbol"), a, "politician"), a, "party"), a, "type"),
            a, "from"), a, "to"))

tradekix_sentiment_truthy(a) ==
    Request1("social/sentiment",
        Forward(Forward(NoProps, a, "sentiment"), a, "financial_only"))

tradekix_sentiment(a) ==
    Request1("social/sentiment",
        PutIf(Forward(NoProps, a, "sentiment"),
              a["financial_only"] # Undefined,
              "financial_only", String(a["financial_only"])))

tradekix_tweets(a) ==
    Request1("social/tweets",
        PutIf(Forward(Forward(Forward(NoProps, a, "author"), a, "symbol"),
                      a, "sentiment"),
              a["financial_only"] # Undefined,
              "financial_only", String(a["financial_only"])))

tradekix_news(a) == Request0("news/summary")

Tools ==
    {"tradekix_market_overview", "tradekix_prices", "tradekix_indices",
     "tradekix_forex", "tradekix_earnings", "tradekix_economic_events",
     "tradekix_congressional_trades", "tradekix_sentiment", "tradekix_tweets",
     "tradekix_news"}

\* The handler registered under each tool name, up to its call of makeRequest.
Handler(tool, a) ==
    CASE tool = "tradekix_market_overview" -> tradekix_market_overview(a)
      [] tool = "tradekix_prices" -> tradekix_prices(a)
      [] tool = "tradekix_indices" -> tradekix_indices(a)
      [] tool = "tradekix_forex" -> tradekix_forex(a)
      [] tool = "tradekix_earnings" -> tradekix_earnings(a)
      [] tool = "tradekix_economic_events" -> tradekix_economic_events(a)
      [] tool = "tradekix_congressional_trades" -> tradekix_congressional_trades(a)
      [] tool = "tradekix_sentiment" -> tradekix_sentiment(a)
      [] tool = "tradekix_tweets" -> tradekix_tweets(a)
      [] tool = "tradekix_news" -> tradekix_news(a)

(***************************************************************************)
(* The parameter schemas of the tools: for each declared parameter, the    *)
(* values the runtime lets through to the handler.                         *)
(***************************************************************************)
StringSamples == {"", "NVDA"}

zString == {Str(s) : s \in StringSamples}
zEnum(values) == {Str(s) : s \in values}
zBoolean == {Bool(TRUE), Bool(FALSE)}
optional(S) == S \cup {Undefined}

Schema(tool) ==
    CASE tool = "tradekix_prices" ->
            [symbol |-> zString, from |-> optional(zString),
             to |-> optional(zString), limit |-> optional(zString)]
      [] tool = "tradekix_indices" ->
            [region |-> optional(zString), country |-> optional(zString)]
      [] tool = "tradekix_forex" -> [symbol |-> optional(zString)]
      [] tool = "tradekix_economic_events" ->
            [country |-> optional(zString),
             impact |-> optional(zEnum({"low", "medium", "high"})),
             from |-> optional(zString), to |-> optional(zString)]
      [] tool = "tradekix_congressional_trades" ->
            [symbol |-> optional(zString), politician |-> optional(zString),
             party |-> optional(zEnum({"Democrat", "Republican"})),
             type |-> optional(zEnum({"buy", "sell"})),
             from |-> optional(zString), to |-> optional(zString)]
      [] tool = "tradekix_sentiment" ->
            [sentiment |-> optional(zEnum({"bullish", "bearish", "neutral"})),
             financial_only |-> optional(zBoolean)]
      [] tool = "tradekix_tweets" ->
            [author |-> optional(zString), symbol |-> optional(zString),
             sentiment |-> optional(zEnum({"bullish", "bearish", "neutral"})),
             financial_only |-> optional(zBoolean)]
      [] OTHER -> NoProps

(***************************************************************************)
(* getApiKey and makeRequest.                                              *)
(***************************************************************************)
BASE_URL == "https://tradekix-alpha.vercel.app/api/v1"

\* An Error object: its class and its message, in the pieces it is made of.
Error(name, message) == [name |-> name, message |-> message]
NoError == Error("", <<>>)

\* The text of the Error getApiKey throws.
MissingKeyMessage ==
    <<"TRADEKIX_API_KEY", " environment variable is required.\n",
      "Get a free key (100 calls/day) at ", "https://www.tradekix.ai/ai-agent-access", "\n",
      "Or run: ", "curl -X POST https://tradekix-alpha.vercel.app/api/v1/connect ",
      "-H \"Content-Type: application/json\" ",
      "-d '{\"agent_name\":\"MyClaude\",\"email\":\"you@example.com\",\"source\":\"mcp\"}'">>

\* How a stretch of code ends: it returns a value, it throws an Error, it
\* goes on to await resp.json(), or it has issued a further fetch.
Returns(v) ==
    [threw |-> FALSE, value |-> v, error |-> NoError, reads |-> FALSE, refetch |-> FALSE]
Throws(err) == [Returns(Undefined) EXCEPT !.threw = TRUE, !.error = err]
ReadsBody == [Returns(Undefined) EXCEPT !.reads = TRUE]
Refetches == [Returns(Undefined) EXCEPT !.refetch = TRUE]

getApiKey_undefinedOnly ==
    IF env = Undefined THEN Throws(Error("Error", MissingKeyMessage)) ELSE Returns(env)

\* Reads the environment when called; throws unless the key is truthy.
getApiKey ==
    IF ~Truthy(env) THEN Throws(Error("Error", MissingKeyMessage)) ELSE Returns(env)

searchParams_all(req) == IF req.given THEN req.params ELSE NoProps

\* url.searchParams after the forEach of makeRequest: the entries of params
\* that are not "" (a Record<string, string> holds no undefined or null).
searchParams(req) ==
    IF req.given
    THEN [k \in {x \in DOMAIN req.params : req.params[x] # ""} |-> req.params[k]]
    ELSE NoProps

NoRequest == [url |-> "", endpoint |-> "", query |-> NoProps, headers |-> NoProps]

\* makeRequest up to `await fetch(...)`: the request it issues, unless
\* getApiKey throws.
makeRequest(req) ==
    LET apiKey == getApiKey
    IN  IF apiKey.threw THEN apiKey
        ELSE Returns([url |-> BASE_URL, endpoint |-> req.endpoint,
                      query |-> searchParams(req),
                      headers |-> ("X-API-Key" :> apiKey.value.s)])

(***************************************************************************)
(* What the runtime hands back.  fetch rejects with an Error or resolves   *)
(* with a Response once the headers are in; resp.json() then rejects with  *)
(* an Error (the body is no JSON text, or its stream failed) or resolves   *)
(* with the JSON value of the body.                                        *)
(***************************************************************************)
Pending == [k |-> "none", v |-> Undefined, err |-> NoError]
Rejected(err) == [k |-> "rejected", v |-> Undefined, err |-> err]
Response == [k |-> "response", v |-> Undefined, err |-> NoError]
Json(v) == [k |-> "json", v |-> v, err |-> NoError]

\* { error, ...(upgrade ? {upgrade} : {}), ...(retry_after_seconds ? {...} : {}) }
NormalizedError(data) ==
    Obj(<< <<"error", Get(data, "error")>> >>
        \o (IF Truthy(Get(data, "upgrade"))
            THEN << <<"upgrade", Get(data, "upgrade")>> >> ELSE <<>>)
        \o (IF Truthy(Get(data, "retry_after_seconds"))
            THEN << <<"retry_after_seconds", Get(data, "retry_after_seconds")>> >>
            ELSE <<>>))

Success_envelope(data) == data

\* return data.data
Success(data) == Get(data, "data")

\* if (!data.success) return {...}; return data.data
\* Reading .success of null throws the engine's TypeError.
OnEnvelope(data) ==
    IF data = Null
    THEN Throws(Error("TypeError", <<"Cannot read properties of null (reading 'success')">>))
    ELSE IF ~Truthy(Get(data, "success"))
    THEN Returns(NormalizedError(data))
    ELSE Returns(Success(data))

\* makeRequest resumed at `await fetch(...)`: a rejection is thrown on as it
\* is; with a Response it calls resp.json() and awaits that.  It issues no
\* further fetch.
makeRequest_fetched(fetched) ==
    IF fetched.k = "rejected" THEN Throws(fetched.err) ELSE ReadsBody

makeRequest_parsed_caught(body) ==
    IF body.k = "rejected"
    THEN Returns(Obj(<< <<"error", Str("request failed")>> >>))
    ELSE OnEnvelope(body.v)

makeRequest_parsed_retry(body) ==
    IF body.k = "rejected" \/ (body.v # Null /\ ~Truthy(Get(body.v, "success")))
    THEN Refetches
    ELSE OnEnvelope(body.v)

\* makeRequest resumed at `await resp.json()`: a rejection is thrown on as it
\* is; otherwise the envelope decides.
makeRequest_parsed(body) ==
    IF body.k = "rejected" THEN Throws(body.err) ELSE OnEnvelope(body.v)

\* return { content: [{ type: "text", text: JSON.stringify(data, null, 2) }] }
ToolResult(data) == [content |-> << [type |-> "text", text |-> JSON_stringify(data)] >>]

NoResult == [content |-> <<>>]

(***************************************************************************)
(* One tool invocation: the handler's closure and what it has done.        *)
(*   pc       "idle"; "await_fetch" (makeRequest at line 43), "await_json" *)
(*            (makeRequest at line 47), "await_makeRequest" (makeRequest   *)
(*            has settled, the handler has not resumed yet); "returned",   *)
(*            "thrown"                                                     *)
(*   seen     the environment value when the invocation started            *)
(*   sent     upstream requests issued by this invocation                  *)
(*   request  the request issued; fetched: how its fetch settled; reply:   *)
(*            how resp.json() settled                                      *)
(*   settled  how the promise of makeRequest settled                       *)
(*   result   the ToolResult returned; error: the Error thrown             *)
(***************************************************************************)
Idle ==
    [pc |-> "idle", tool |-> "", args |-> NoProps, seen |-> Undefined, sent |-> 0,
     request |-> NoRequest, fetched |-> Pending, reply |-> Pending,
     settled |-> Returns(Undefined), error |-> NoError, result |-> NoResult]

Live(j) == calls[j].pc # "idle"

params_shared(i, tool, a) ==
    LET own == Handler(tool, a)
        others == {j \in DOMAIN calls : j # i /\ Live(j) /\ calls[j].tool = tool}
    IN  IF others = {} \/ ~own.given THEN own
        ELSE [own EXCEPT !.params =
                 @ @@ Handler(tool, calls[CHOOSE j \in others : TRUE].args).params]

\* The endpoint and the params object invocation i hands to makeRequest: each
\* run of a handler builds its own object from its own arguments.
params(i, tool, a) == Handler(tool, a)

\* Where makeRequest stands after a stretch that ended as r.
After(c, r) ==
    IF r.refetch THEN [c EXCEPT !.pc = "await_fetch", !.sent = @ + 1,
                                !.fetched = Pending, !.reply = Pending]
    ELSE IF r.reads THEN [c EXCEPT !.pc = "await_json"]
    ELSE [c EXCEPT !.pc = "await_makeRequest", !.settled = r]

\* The runtime calls the handler of `tool` with the validated arguments a; the
\* handler calls makeRequest, which runs until it throws or awaits its fetch,
\* and awaits it.
Invoke(i, tool, a) ==
    /\ calls[i].pc = "idle"
    /\ LET r == makeRequest(params(i, tool, a))
           c == [calls[i] EXCEPT !.tool = tool, !.args = a, !.seen = env]
       IN  calls' = [calls EXCEPT ![i] =
                IF r.threw THEN After(c, r)
                ELSE [c EXCEPT !.pc = "await_fetch", !.sent = 1, !.request = r.value]]
    /\ UNCHANGED env

\* The fetch of invocation i settles (it rejects, or the headers of a
\* response are in) and makeRequest is resumed with it.
FetchSettles(i, fetched) ==
    /\ calls[i].pc = "await_fetch"
    /\ calls' = [calls EXCEPT ![i] =
            After([@ EXCEPT !.fetched = fetched], makeRequest_fetched(fetched))]
    /\ UNCHANGED env

\* resp.json() of invocation i settles (the body is in and parsed, or it
\* failed) and makeRequest is resumed with it, and runs to its end.
JsonSettles(i, body) ==
    /\ calls[i].pc = "await_json"
    /\ calls' = [calls EXCEPT ![i] =
            After([@ EXCEPT !.reply = body], makeRequest_parsed(body))]
    /\ UNCHANGED env

\* The handler of invocation i is resumed with what makeRequest settled to:
\* it returns its ToolResult, or the Error is thrown out of it.
HandlerResumes(i) ==
    /\ calls[i].pc = "await_makeRequest"
    /\ calls' = [calls EXCEPT ![i] =
            IF calls[i].settled.threw
            THEN [@ EXCEPT !.pc = "thrown", !.error = calls[i].settled.error]
            ELSE [@ EXCEPT !.pc = "returned", !.result = ToolResult(calls[i].settled.value)]]
    /\ UNCHANGED env

\* The process environment is changed while the server runs.
SetEnv(v) ==
    /\ v # env
    /\ env' = v
    /\ UNCHANGED calls

(***************************************************************************)
(* Inputs.                                                                 *)
(***************************************************************************)
DefinedValues(sch) == UNION {sch[k] : k \in DOMAIN sch} \ {Undefined}
Required(sch) == {k \in DOMAIN sch : Undefined \notin sch[k]}

\* A parameter no schema declares, present in what the client sends.
Undeclared == "page"

\* The argument objects a client can send for `tool`: any parameters given,
\* each a value its schema accepts.
ArgsOf(tool) ==
    LET sch == (Undeclared :> optional(zString)) @@ Schema(tool)
    IN  UNION { { [k \in DOMAIN sch |-> IF k \in K THEN f[k] ELSE Undefined] :
                  f \in {g \in [K -> DefinedValues(sch)] : \A k \in K : g[k] \in sch[k]} } :
                K \in {X \in SUBSET DOMAIN sch : Required(sch) \subseteq X} }

Invocations == UNION { {<<tool, a>> : a \in ArgsOf(tool)} : tool \in Tools }

Given(tool, fields) ==
    LET sch == (Undeclared :> optional(zString)) @@ Schema(tool)
    IN  <<tool, [k \in DOMAIN sch |-> IF k \in DOMAIN fields THEN fields[k] ELSE Undefined]>>

SampleInvocations ==
    { Given("tradekix_congressional_trades", [symbol |-> Str("NVDA"), party |-> Str("Democrat")]),
      Given("tradekix_congressional_trades", [type |-> Str("buy")]),
      Given("tradekix_market_overview", NoProps) }

Leaves == {Null, Bool(TRUE), Bool(FALSE), Num(0), Num(30), Str(""), Str("x")}
Keys == <<"a", "b", "c", "d", "e">>

Arrays(n) == UNION { {Arr(f) : f \in [1..m -> Leaves]} : m \in 0..n }
Objects(n) ==
    UNION { {Obj([j \in 1..m |-> <<Keys[j], f[j]>>]) : f \in [1..m -> Leaves]} : m \in 0..n }
Nested ==
    UNION { {Arr(<<c, Num(1)>>), Arr(<<Arr(<<c>>)>>), Obj(<< <<"x", Num(1)>>, <<"items", c>> >>),
             Obj(<< <<"rows", Arr(<<c, c>>)>> >>)} : c \in Arrays(1) \cup Objects(1) }

\* The JSON values `data` ranges over.
JsonData == Leaves \cup Arrays(MaxLen) \cup Objects(MaxLen) \cup Nested

\* An upstream envelope; a field that is Undefined is absent from the body.
Envelope(success, data, error, upgrade, retry) ==
    Obj(Written(<< <<"success", success>>, <<"data", data>>, <<"error", error>>,
                   <<"upgrade", upgrade>>, <<"retry_after_seconds", retry>> >>))

Failures ==
    { Envelope(s, Undefined, e, u, r) :
        s \in {Bool(FALSE), Undefined}, e \in {Undefined, Str("rate limited")},
        u \in {Undefined, Str(""), Str("pro"), Bool(FALSE)},
        r \in {Undefined, Num(0), Num(30)} }

Successes == { Envelope(Bool(TRUE), d, Undefined, Undefined, Undefined) :
                 d \in JsonData \cup {Undefined} }

\* Bodies that are JSON but no envelope object.
Bare == {Null, Num(30), Str("ok"), Arr(<<>>)}

\* The Errors the runtime rejects with: fetch when the request fails;
\* resp.json() for an empty body, a body that is no JSON, text after the JSON
\* value, and a body stream that fails after the headers came in.
FetchFailed == Error("TypeError", <<"fetch failed">>)
EndOfInput == Error("SyntaxError", <<"Unexpected end of JSON input">>)
BodyErrors ==
    { EndOfInput,
      Error("SyntaxError", <<"Unexpected token '<', \"<html>\" is not valid JSON">>),
      Error("SyntaxError", <<"Unexpected non-whitespace character after JSON at position 17">>),
      Error("TypeError", <<"terminated">>) }

Fetches == {Rejected(FetchFailed), Response}

Replies ==
    {Rejected(e) : e \in BodyErrors} \cup {Json(e) : e \in Bare \cup Failures \cup Successes}

SampleReplies ==
    { Json(Envelope(Bool(TRUE), Obj(<< <<"x", Num(1)>> >>), Undefined, Undefined, Undefined)),
      Json(Envelope(Bool(FALSE), Undefined, Str("rate limited"), Undefined, Num(30))) }

Key1 == Str("tk_live_1")
Key2 == Str("tk_live_2")

(***************************************************************************)
(* Spec: several invocations in flight together, their fetches and bodies  *)
(* settling in any order, the environment changing underneath them.        *)
(***************************************************************************)
Calls == 1..MaxCalls

Init ==
    /\ env \in {Undefined, Key1}
    /\ calls = [i \in Calls |-> Idle]

Next ==
    \/ \E i \in Calls, inv \in SampleInvocations : Invoke(i, inv[1], inv[2])
    \/ \E i \in Calls, fetched \in Fetches : FetchSettles(i, fetched)
    \/ \E i \in Calls, body \in SampleReplies : JsonSettles(i, body)
    \/ \E i \in Calls : HandlerResumes(i)
    \/ \E v \in {Undefined, Key1, Key2} : SetEnv(v)

Spec == Init /\ [][Next]_vars

(***************************************************************************)
(* SpecFaults: several invocations in flight together, with or without a   *)
(* credential (unset, empty or set, and changing), each of which may meet  *)
(* a rejected fetch, a body that is no JSON, a success = false envelope or *)
(* a success = true envelope.                                              *)
(***************************************************************************)
FaultReplies == {Rejected(EndOfInput)} \cup SampleReplies

InitFaults ==
    /\ env \in {Undefined, Str(""), Key1}
    /\ calls = [i \in Calls |-> Idle]

NextFaults ==
    \/ \E i \in Calls, inv \in SampleInvocations : Invoke(i, inv[1], inv[2])
    \/ \E i \in Calls, fetched \in Fetches : FetchSettles(i, fetched)
    \/ \E i \in Calls, body \in FaultReplies : JsonSettles(i, body)
    \/ \E i \in Calls : HandlerResumes(i)
    \/ \E v \in {Undefined, Str(""), Key1} : SetEnv(v)

SpecFaults == InitFaults /\ [][NextFaults]_vars

(***************************************************************************)
(* SpecParams: one invocation, over every tool and argument object.        *)
(***************************************************************************)
InitOne ==
    /\ env \in {Undefined, Str(""), Key1}
    /\ calls = [i \in {1} |-> Idle]

NextParams ==
    \/ /\ calls[1].pc = "idle"
       /\ \E inv \in Invocations : Invoke(1, inv[1], inv[2])
    \/ \E fetched \in Fetches : FetchSettles(1, fetched)
    \/ \E body \in SampleReplies : JsonSettles(1, body)
    \/ HandlerResumes(1)

SpecParams == InitOne /\ [][NextParams]_vars

(***************************************************************************)
(* SpecReplies: one invocation, over everything that can come back.        *)
(***************************************************************************)
NextReplies ==
    \/ \E inv \in SampleInvocations : Invoke(1, inv[1], inv[2])
    \/ \E fetched \in Fetches : FetchSettles(1, fetched)
    \/ \E body \in Replies : JsonSettles(1, body)
    \/ HandlerResumes(1)

SpecReplies == InitOne /\ [][NextReplies]_vars

(***************************************************************************)
(* What a client does with a result text: JSON.parse, here on the tokens.  *)
(* White space between tokens is insignificant.                            *)
(***************************************************************************)
Significant(toks) == SelectSeq(toks, LAMBDA x : x.k \notin {"nl", "sp"})

Parsed(v, rest) == [ok |-> TRUE, v |-> v, rest |-> rest]
SyntaxError == [ok |-> FALSE, v |-> Undefined, rest |-> <<>>]

RECURSIVE ParseValue(_)
RECURSIVE ParseItems(_, _)
RECURSIVE ParseMembers(_, _)

\* value ("," value)* "]"
ParseItems(ts, acc) ==
    LET e == ParseValue(ts)
    IN  IF ~e.ok \/ e.rest = <<>> THEN SyntaxError
        ELSE IF Head(e.rest) = P(",") THEN ParseItems(Tail(e.rest), Append(acc, e.v))
        ELSE IF Head(e.rest) = P("]") THEN Parsed(Arr(Append(acc, e.v)), Tail(e.rest))
        ELSE SyntaxError

\* string ":" value ("," string ":" value)* "}"
ParseMembers(ts, acc) ==
    IF Len(ts) < 3 \/ ts[1].k # "str" \/ ts[2] # P(":") THEN SyntaxError
    ELSE LET e == ParseValue(SubSeq(ts, 3, Len(ts)))
             m == <<ts[1].s, e.v>>
         IN  IF ~e.ok \/ e.rest = <<>> THEN SyntaxError
             ELSE IF Head(e.rest) = P(",") THEN ParseMembers(Tail(e.rest), Append(acc, m))
             ELSE IF Head(e.rest) = P("}") THEN Parsed(Obj(Append(acc, m)), Tail(e.rest))
             ELSE SyntaxError

ParseValue(ts) ==
    IF ts = <<>> THEN SyntaxError
    ELSE LET h == Head(ts)
             r == Tail(ts)
         IN  CASE h = Lit("null") -> Parsed(Null, r)
               [] h = Lit("true") -> Parsed(Bool(TRUE), r)
               [] h = Lit("false") -> Parsed(Bool(FALSE), r)
               [] h.k = "num" -> Parsed(Num(h.n), r)
               [] h.k = "str" -> Parsed(Str(h.s), r)
               [] h = P("[") ->
                     IF r # <<>> /\ Head(r) = P("]") THEN Parsed(Arr(<<>>), Tail(r))
                     ELSE ParseItems(r, <<>>)
               [] h = P("{") ->
                     IF r # <<>> /\ Head(r) = P("}") THEN Parsed(Obj(<<>>), Tail(r))
                     ELSE ParseMembers(r, <<>>)
               [] OTHER -> SyntaxError

\* The value a text parses to; Undefined when it is no JSON text.
JSON_parse(text) ==
    IF text.t # "text" THEN Undefined
    ELSE LET r == ParseValue(Significant(text.toks))
         IN  IF r.ok /\ r.rest = <<>> THEN r.v ELSE Undefined

\* Pretty-printed with two spaces: inside a non-empty array or object every
\* element starts a line indented by two spaces per level of nesting, the
\* closing bracket is on a line of its own, and a space follows each colon.
Opens(toks, j) == Cardinality({x \in 1..(j - 1) : toks[x] \in {P("["), P("{")}})
Closes(toks, j) == Cardinality({x \in 1..(j - 1) : toks[x] \in {P("]"), P("}")}})
PrettyPrinted(toks) ==
    /\ \A j \in 1..Len(toks) :
          /\ toks[j].k = "nl" =>
                /\ j < Len(toks)
                /\ toks[j].n =
                      2 * (Opens(toks, j) - Closes(toks, j)
                           - (IF toks[j + 1] \in {P("]"), P("}")} THEN 1 ELSE 0))
          /\ toks[j] = P(":") => j < Len(toks) /\ toks[j + 1] = Sp
          /\ toks[j] = P(",") => j < Len(toks) /\ toks[j + 1].k = "nl"
          /\ toks[j] \in {P("["), P("{")} =>
                j < Len(toks) /\ (toks[j + 1].k = "nl" \/ toks[j + 1] \in {P("]"), P("}")})
    /\ \A j \in 2..Len(toks) :
          toks[j] \in {P("]"), P("}")} =>
              (toks[j - 1].k = "nl" \/ toks[j - 1] \in {P("["), P("{")})

(***************************************************************************)
(* The claims.                                                             *)
(***************************************************************************)
Ids == DOMAIN calls
Requested(i) == calls[i].sent > 0
Ended(i) == calls[i].pc \in {"returned", "thrown"}
KeyOf(i) == calls[i].request.headers["X-API-Key"]
TextOf(i) == calls[i].result.content[1].text

\* The Error invocation i fails with, once makeRequest has thrown it.
Thrown(i) == IF calls[i].pc = "thrown" THEN calls[i].error ELSE calls[i].settled.error

\* The endpoint table of the specification (section 4.1).
EndpointOf(tool) ==
    CASE tool = "tradekix_market_overview" -> "market/overview"
      [] tool = "tradekix_prices" -> "market/prices"
      [] tool = "tradekix_indices" -> "market/indices"
      [] tool = "tradekix_forex" -> "market/forex"
      [] tool = "tradekix_earnings" -> "events/earnings"
      [] tool = "tradekix_economic_events" -> "events/economic"
      [] tool = "tradekix_congressional_trades" -> "trades/congressional"
      [] tool = "tradekix_sentiment" -> "social/sentiment"
      [] tool = "tradekix_tweets" -> "social/tweets"
      [] tool = "tradekix_news" -> "news/summary"

\* The declared parameters of `tool` that a holds with a defined, non-empty value.
Supplied(tool, a) ==
    {k \in DOMAIN Schema(tool) : a[k] # Undefined /\ a[k] # Str("")}

StringForm(v) ==
    IF v = Bool(TRUE) THEN "true" ELSE IF v = Bool(FALSE) THEN "false" ELSE v.s

\* C1: the request of every invocation goes to the tool's fixed endpoint and
\* its query keys are exactly the declared parameters supplied with a defined,
\* non-empty value, each with its value in string form: nothing absent or
\* empty, no undeclared key, and no key at all when nothing is supplied.
C1_QueryIsSuppliedParameters ==
    \A i \in Ids :
        Requested(i) =>
            /\ calls[i].sent = 1
            /\ calls[i].request.url = "https://tradekix-alpha.vercel.app/api/v1"
            /\ calls[i].request.endpoint = EndpointOf(calls[i].tool)
            /\ DOMAIN calls[i].request.query = Supplied(calls[i].tool, calls[i].args)
            /\ \A k \in DOMAIN calls[i].request.query :
                  calls[i].request.query[k] = StringForm(calls[i].args[k])

C1_Witness ==
    \E i \in Ids :
        /\ calls[i].tool = "tradekix_congressional_trades"
        /\ Requested(i)
        /\ calls[i].args["symbol"] = Str("NVDA")
        /\ calls[i].args["party"] = Str("Democrat")
        /\ calls[i].args["from"] = Str("")
        /\ calls[i].args[Undeclared] = Str("NVDA")
        /\ calls[i].request.query = [symbol |-> "NVDA", party |-> "Democrat"]

\* What the claim says of a success = false envelope: the error object holds
\* the error message and each hint exactly when the envelope carries it.  An
\* `upgrade` of false or "" is read as no hint; a `retry_after_seconds` is a
\* hint whatever its number.
ClaimedError(data) ==
    Obj(Written(<< <<"error", Get(data, "error")>>,
                   <<"upgrade", IF Get(data, "upgrade") \in {Bool(FALSE), Str("")}
                                THEN Undefined ELSE Get(data, "upgrade")>>,
                   <<"retry_after_seconds", Get(data, "retry_after_seconds")>> >>))

FailureReply(i) ==
    calls[i].reply.k = "json" /\ Get(calls[i].reply.v, "success") = Bool(FALSE)

\* C2 (as claimed): for every envelope with success = false the invocation
\* returns, and its text is the pretty-printed error object holding the error
\* message, `upgrade` exactly when the envelope carries one and
\* `retry_after_seconds` exactly when the envelope carries one, 0 included.
C2_HintsExactlyWhenCarried ==
    \A i \in Ids :
        (FailureReply(i) /\ Ended(i)) =>
            /\ calls[i].pc = "returned"
            /\ PrettyPrinted(TextOf(i).toks)
            /\ JSON_parse(TextOf(i)) = ClaimedError(calls[i].reply.v)

Failed(i) ==
    \/ calls[i].fetched.k = "rejected"
    \/ calls[i].reply.k = "rejected"
    \/ calls[i].reply = Json(Null)

\* C3 (as claimed): every invocation that found a credential ends by returning
\* a ToolResult, whatever came back.
C3_AlwaysToolResult ==
    \A i \in Ids :
        (Ended(i) /\ Truthy(calls[i].seen)) =>
            calls[i].pc = "returned" /\ Len(calls[i].result.content) = 1

\* C3 (amended): an invocation ends by returning a ToolResult exactly when
\* the body that came back parses as JSON to a value other than null; a
\* rejected fetch, a rejected resp.json() (no JSON, or the body stream
\* failed) and a null body are not caught: the invocation ends by throwing
\* that very Error, with no ToolResult, as it does when the credential is
\* missing.
C3_FaultsPropagate ==
    \A i \in Ids :
        Ended(i) =>
            IF ~Truthy(calls[i].seen) \/ Failed(i)
            THEN /\ calls[i].pc = "thrown"
                 /\ calls[i].result = NoResult
                 /\ ~Truthy(calls[i].seen) =>
                       calls[i].error.name = "Error" /\ calls[i].sent = 0
                 /\ calls[i].fetched.k = "rejected" => calls[i].error = calls[i].fetched.err
                 /\ calls[i].reply.k = "rejected" => calls[i].error = calls[i].reply.err
                 /\ calls[i].reply = Json(Null) => calls[i].error.name = "TypeError"
            ELSE /\ calls[i].pc = "returned"
                 /\ Len(calls[i].result.content) = 1
                 /\ calls[i].result.content[1].type = "text"
                 /\ calls[i].error = NoError

C3_Witness ==
    \E i \in Ids :
        /\ calls[i].pc = "thrown"
        /\ calls[i].fetched = Response
        /\ calls[i].reply = Rejected(Error("TypeError", <<"terminated">>))
        /\ calls[i].error = Error("TypeError", <<"terminated">>)
        /\ calls[i].sent = 1

\* C4: an invocation made while TRADEKIX_API_KEY is unset or empty fails
\* without any upstream request, and the message of the failure names the
\* variable and says where to get a key and which call provisions one.
C4_NoCredentialNoRequest ==
    \A i \in Ids :
        (Live(i) /\ calls[i].seen \in {Undefined, Str("")}) =>
            /\ calls[i].pc \in {"await_makeRequest", "thrown"}
            /\ calls[i].pc = "await_makeRequest" => calls[i].settled.threw
            /\ calls[i].sent = 0
            /\ calls[i].request = NoRequest
            /\ calls[i].fetched = Pending
            /\ \E j \in 1..Len(Thrown(i).message) : Thrown(i).message[j] = "TRADEKIX_API_KEY"
            /\ \E j \in 1..Len(Thrown(i).message) :
                  Thrown(i).message[j] = "https://www.tradekix.ai/ai-agent-access"
            /\ \E j \in 1..Len(Thrown(i).message) :
                  Thrown(i).message[j] =
                      "curl -X POST https://tradekix-alpha.vercel.app/api/v1/connect "

C4_Witness ==
    \E i \in Ids :
        /\ calls[i].seen = Str("")
        /\ calls[i].tool = "tradekix_prices"
        /\ calls[i].args["symbol"] = Str("NVDA")
        /\ calls[i].pc = "thrown"
        /\ calls[i].error.message = MissingKeyMessage
        /\ calls[i].sent = 0

\* C5 (as claimed): all upstream requests of the process carry one and the
\* same credential, whatever happens to the environment between invocations.
C5_OneCredentialForAll ==
    \A i, j \in Ids : (Requested(i) /\ Requested(j)) => KeyOf(i) = KeyOf(j)

\* C6: sentiment and tweets forward a given financial_only as "true" or
\* "false", false included; only an absent financial_only is left out.
C6_FinancialOnlyForwarded ==
    \A i \in Ids :
        (Requested(i) /\ calls[i].tool \in {"tradekix_sentiment", "tradekix_tweets"}) =>
            LET q == calls[i].request.query
                f == calls[i].args["financial_only"]
            IN  /\ f = Bool(FALSE) => "financial_only" \in DOMAIN q /\ q["financial_only"] = "false"
                /\ f = Bool(TRUE) => "financial_only" \in DOMAIN q /\ q["financial_only"] = "true"
                /\ f = Undefined => "financial_only" \notin DOMAIN q

C6_Witness ==
    \E i \in Ids :
        /\ calls[i].tool = "tradekix_sentiment"
        /\ calls[i].args["financial_only"] = Bool(FALSE)
        /\ calls[i].args["sentiment"] = Undefined
        /\ Requested(i)
        /\ calls[i].request.query = [financial_only |-> "false"]

SuccessReply(i) ==
    /\ calls[i].reply.k = "json"
    /\ Get(calls[i].reply.v, "success") = Bool(TRUE)
    /\ HasKey(calls[i].reply.v, "data")

\* C7: for every envelope with success = true the result is one text block
\* whose text is the pretty-printed JSON of `data`: parsing it gives back a
\* value equal to `data`.
C7_DataRoundTrip ==
    \A i \in Ids :
        (SuccessReply(i) /\ Ended(i)) =>
            /\ calls[i].pc = "returned"
            /\ Len(calls[i].result.content) = 1
            /\ calls[i].result.content[1].type = "text"
            /\ TextOf(i).t = "text"
            /\ PrettyPrinted(TextOf(i).toks)
            /\ JSON_parse(TextOf(i)) = Get(calls[i].reply.v, "data")

C7_Witness ==
    \E i \in Ids :
        /\ calls[i].pc = "returned"
        /\ SuccessReply(i)
        /\ Get(calls[i].reply.v, "data") =
              Obj(<< <<"x", Num(1)>>, <<"items", Arr(<<Str("x")>>)>> >>)
        /\ JSON_parse(TextOf(i)) = Get(calls[i].reply.v, "data")
        /\ Len(TextOf(i).toks) > Len(Significant(TextOf(i).toks))

\* C8: an invocation issues at most one upstream request: exactly one when a
\* credential is configured, none when it is unset or empty, and no further
\* one after a rejected fetch, a body that is no JSON or a success = false
\* envelope, however it ends.
C8_OneRequestNoRetry ==
    \A i \in Ids :
        /\ calls[i].sent <= 1
        /\ Live(i) => (calls[i].sent = 1 <=> Truthy(calls[i].seen))
        /\ (calls[i].fetched # Pending \/ calls[i].reply # Pending) => calls[i].sent = 1
        /\ (Ended(i) /\ Failed(i)) => calls[i].sent = 1
        /\ (Ended(i) /\ FailureReply(i)) => calls[i].sent = 1

\* One invocation has ended on a body that is no JSON, with its one request;
\* another, made while the key was the empty string, has ended with none.
C8_Witness ==
    \E i, j \in Ids :
        /\ calls[i].pc = "thrown"
        /\ calls[i].fetched = Response
        /\ calls[i].reply.k = "rejected"
        /\ calls[i].error.name = "SyntaxError"
        /\ calls[i].sent = 1
        /\ calls[j].pc = "thrown"
        /\ calls[j].seen = Str("")
        /\ calls[j].sent = 0

\* What one invocation's own fetch and body make of it.
OwnOutcome(i) ==
    CASE calls[i].fetched.k = "rejected" \/ calls[i].reply.k = "rejected" ->
            <<"thrown", NoResult>>
      [] Get(calls[i].reply.v, "success") = Bool(TRUE) ->
            <<"returned", ToolResult(Get(calls[i].reply.v, "data"))>>
      [] OTHER -> <<"returned", ToolResult(NormalizedError(calls[i].reply.v))>>

\* C9: with several invocations in flight and replies arriving in any order,
\* the request of each is made of its own tool and arguments and its outcome
\* of the reply to its own request.
C9_InvocationsIsolated ==
    \A i \in Ids :
        /\ Requested(i) =>
              /\ calls[i].request.endpoint = EndpointOf(calls[i].tool)
              /\ calls[i].request.query =
                    [k \in Supplied(calls[i].tool, calls[i].args) |->
                        StringForm(calls[i].args[k])]
              /\ KeyOf(i) = calls[i].seen.s
        /\ Ended(i) /\ Requested(i) =>
              <<calls[i].pc, calls[i].result>> = OwnOutcome(i)
        /\ \A j \in Ids :
              (Ended(i) /\ Ended(j) /\ calls[i].tool = calls[j].tool
                 /\ calls[i].args = calls[j].args
                 /\ calls[i].fetched = calls[j].fetched /\ calls[i].reply = calls[j].reply
                 /\ Truthy(calls[i].seen) /\ Truthy(calls[j].seen)) =>
                    /\ calls[i].request.query = calls[j].request.query
                    /\ calls[i].result = calls[j].result

\* One invocation is still waiting for its body (headers in) while a later
\* one, made under another key, has run from start to end.
C9_Witness ==
    \E i, j \in Ids :
        /\ i < j
        /\ calls[i].tool = calls[j].tool
        /\ calls[i].args # calls[j].args
        /\ calls[i].pc = "await_json" /\ calls[i].fetched = Response
        /\ calls[i].seen = Key1 /\ calls[j].seen = Key2
        /\ calls[j].pc = "returned" /\ FailureReply(j)
        /\ calls[i].request.query # calls[j].request.query

\* C10 (as claimed): no request of the prices tool goes out without `symbol`.
C10_PricesAlwaysSymbol ==
    \A i \in Ids :
        (Requested(i) /\ calls[i].tool = "tradekix_prices") =>
            "symbol" \in DOMAIN calls[i].request.query

\* C10 (amended): a request of the prices tool carries `symbol`, with the
\* value given, exactly when the symbol given is not the empty string; for
\* the empty string the request to market/prices goes out without `symbol`.
C10_PricesSymbolUnlessEmpty ==
    \A i \in Ids :
        (Live(i) /\ calls[i].tool = "tradekix_prices" /\ Truthy(calls[i].seen)) =>
            /\ calls[i].sent = 1
            /\ calls[i].request.endpoint = "market/prices"
            /\ "symbol" \in DOMAIN calls[i].request.query <=> calls[i].args["symbol"] # Str("")
            /\ "symbol" \in DOMAIN calls[i].request.query =>
                  Str(calls[i].request.query["symbol"]) = calls[i].args["symbol"]

C10_Witness ==
    \E i \in Ids :
        /\ calls[i].tool = "tradekix_prices"
        /\ calls[i].args["symbol"] = Str("")
        /\ calls[i].args["limit"] = Str("NVDA")
        /\ calls[i].sent = 1
        /\ calls[i].request.query = [limit |-> "NVDA"]

====
